---- MODULE Spec2Model ----
(***************************************************************************)
(* A model of gvm.py: a script that validates its arguments, opens a       *)
(* video, samples one frame every interval_sec seconds, stamps each frame  *)
(* with an HH:MM:SS label, halves it, and pastes the frames into a grid    *)
(* image with grid_cols columns that is saved to grid_output.              *)
(*                                                                         *)
(* The script is a straight line of try-blocks.  pc is the block that runs *)
(* next; the outcome of every call into OpenCV / Pillow / the file system  *)
(* (file exists, video opens, a read returns a frame, a call raises) is    *)
(* chosen by the environment.  Strings are sequences of one-character      *)
(* strings, so that lower(), endswith() and the d02 format are computed.   *)
(***************************************************************************)
EXTENDS Integers, Sequences, FiniteSets, TLC

(* ------------------------------ bounds -------------------------------- *)
\* largest CAP_PROP_FRAME_COUNT a modelled video reports
MaxTotalFrames == 5
\* largest "small" column count given with -w (68 is added to overflow 65000)
MaxCols == 3
\* SpecFmt formats the timestamps interval_sec * k for k in 0..MaxFmtIndex
MaxFmtIndex == 125

(* ------------------------- program constants -------------------------- *)
interval_sec == 30
MaxGridDim == 65000

(* ------------------------------ inputs -------------------------------- *)
\* values of -s (the default is 20)
FontSizes == {-1, 0, 5, 20}
\* values of -w (the default is 5)
GridCols == {-1, 0, 68} \cup (1..MaxCols)
\* values of -o
OutputNames ==
    { <<"g", ".", "j", "p", "g">>,
      <<"G", ".", "J", "P", "E", "G">>,
      <<"g", ".", "P", "n", "g">>,
      <<"g", ".", "g", "i", "f">>,
      <<"j", "p", "g">>,
      <<"g", ".", "p", "n", "g", ".", "e">>,
      <<>> }
\* CAP_PROP_FPS as a fraction <<numerator, denominator>>: 1/30, 1/19, 3/100
\* frames per second (durations 30n, 19n and 33.33..n seconds), and 0
FpsValues == { <<1, 30>>, <<1, 19>>, <<3, 100>>, <<0, 1>> }
\* frame width and height in pixels
FrameSizes == { <<1920, 1080>>, <<4, 50000>> }
Videos ==
    { [w |-> s[1], h |-> s[2], fps |-> f, frames |-> n] :
        s \in FrameSizes, f \in FpsValues, n \in 0..MaxTotalFrames }
NoVideo == [w |-> 0, h |-> 0, fps |-> <<0, 1>>, frames |-> 0]

VARIABLES
    video_is_file,      \* os.path.isfile(video_path)
    font_size,          \* args.size
    grid_cols,          \* args.width
    grid_output,        \* args.output
    pc,                 \* the block of the script that runs next
    exit_status,        \* the process exit status once pc = "Exited"
    stdout,             \* the messages printed, <<tag, argument>>
    cap,                \* the VideoCapture: "none", "open" or "released"
    release_calls,      \* number of cap.release() calls made
    video,              \* what the opened file holds
    reads,              \* the cap.read() calls made: [t, ret, cap]
    fps,                \* <<numerator, denominator>>
    total_frames,
    duration_sec,       \* <<numerator, denominator>>
    total_screenshots,
    font,               \* "none", "arial" or "default"
    margin,
    stroke_width,
    i,                  \* the capture loop's index
    current_time,
    hours,
    minutes,
    seconds,
    timestamp,
    screenshots,        \* sequence of [ts, label, w, h]
    width,
    height,
    grid_rows,
    grid_width,
    grid_height,
    scale_factor,
    grid_image,         \* the canvas: [w, h, pasted], pasted a sequence of
                        \* [img, x, y, w, h] over a white background
    files_written       \* number of times grid_output was written

args == <<video_is_file, font_size, grid_cols, grid_output>>
capvars == <<cap, release_calls, video, reads>>
metavars == <<fps, total_frames, duration_sec, total_screenshots>>
fontvars == <<font, margin, stroke_width>>
fmtvars == <<hours, minutes, seconds, timestamp>>
loopvars == <<i, current_time, screenshots>>
gridvars == <<width, height, grid_rows, grid_width, grid_height, scale_factor,
              grid_image>>
vars == <<args, pc, exit_status, stdout, capvars, metavars, fontvars, fmtvars,
          loopvars, gridvars, files_written>>

(* ------------------------------ helpers ------------------------------- *)
Min(a, b) == IF a < b THEN a ELSE b
Max(a, b) == IF a > b THEN a ELSE b

\* str.lower() on one character
LowerChar(c) ==
    CASE c = "J" -> "j" [] c = "P" -> "p" [] c = "E" -> "e"
      [] c = "G" -> "g" [] c = "N" -> "n" [] OTHER -> c
Lower(s) == [k \in 1..Len(s) |-> LowerChar(s[k])]
EndsWith(s, suffix) ==
    /\ Len(s) >= Len(suffix)
    /\ SubSeq(s, Len(s) - Len(suffix) + 1, Len(s)) = suffix
ImageExtensions ==
    { <<".", "j", "p", "g">>, <<".", "j", "p", "e", "g">>, <<".", "p", "n", "g">> }

\* A print(...) call
Say(tag, arg) == Append(stdout, <<tag, arg>>)
Printed(tag) == \E k \in 1..Len(stdout) : stdout[k][1] = tag

(* ------------------- the script's computations ------------------------ *)
\* the checks of lines 24-29 with the extension check of line 30 left out
ArgsValid_NoExtensionCheck(is_file, size, cols, output) ==
    /\ is_file
    /\ ~(size <= 0)
    /\ ~(cols <= 0)

\* lines 24-31: the four argument checks
ArgsValid(is_file, size, cols, output) ==
    /\ is_file
    /\ ~(size <= 0)
    /\ ~(cols <= 0)
    /\ \E e \in ImageExtensions : EndsWith(Lower(output), e)

\* line 49: fps <= 0 or total_frames <= 0
InvalidMetadata(f, frames) == f[1] <= 0 \/ frames <= 0
\* line 51: total_frames / fps, as a fraction
DurationSec(frames, f) == <<frames * f[2], f[1]>>
\* line 52 without the + 1
TotalScreenshots_NoPlusOne(d) == d[1] \div (d[2] * interval_sec)
\* line 52: int(duration_sec // interval_sec) + 1
TotalScreenshots(d) == (d[1] \div (d[2] * interval_sec)) + 1
\* line 88: current_time >= duration_sec
AtOrPastEnd(t, d) == t * d[2] >= d[1]

\* lines 76-77
Margin(size) == Max(10, size \div 2)
StrokeWidth(size) == Max(1, size \div 10)

\* lines 101-104: the HH:MM:SS label
Hours(t) == t \div 3600
\* line 102 without the % 3600
Minutes_NoWrap(t) == t \div 60
Minutes(t) == (t % 3600) \div 60
Seconds(t) == t % 60
DigitChar(d) == <<"0", "1", "2", "3", "4", "5", "6", "7", "8", "9">>[d + 1]
RECURSIVE Decimal(_)
Decimal(n) ==
    IF n < 10 THEN <<DigitChar(n)>>
    ELSE Decimal(n \div 10) \o <<DigitChar(n % 10)>>
\* the format spec 02d on a non-negative integer
Format02d(n) == IF Len(Decimal(n)) < 2 THEN <<"0">> \o Decimal(n) ELSE Decimal(n)
Timestamp(t) ==
    Format02d(Hours(t)) \o <<":">> \o Format02d(Minutes(t)) \o <<":">>
        \o Format02d(Seconds(t))

\* line 135 with floor in place of ceiling division
GridRows_Floor(n, cols) == n \div cols
\* line 135
GridRows(n, cols) == (n + cols - 1) \div cols
\* lines 136-137 and 148-149
GridWidth(w, cols) == w * cols
GridHeight(h, rows) == h * rows
\* line 140
Overflows(gw, gh) == gw > MaxGridDim \/ gh > MaxGridDim
\* line 143
ScaleFactor(gw, gh) == Min(MaxGridDim \div gw, MaxGridDim \div gh)
\* line 153 with the column taken from i // grid_cols
PasteX_ByRow(k, cols, w) == (k \div cols) * w
\* line 153: the paste position of screenshot k (0-based)
PasteX(k, cols, w) == (k % cols) * w
PasteY(k, cols, h) == (k \div cols) * h

\* cap.release()
Release ==
    /\ cap' = "released"
    /\ release_calls' = release_calls + 1
\* sys.exit(1)
Exit1 ==
    /\ pc' = "Exited"
    /\ exit_status' = 1

(* ------------------------------- Init --------------------------------- *)
Blank ==
    /\ exit_status = 0
    /\ stdout = <<>>
    /\ cap = "none"
    /\ release_calls = 0
    /\ video = NoVideo
    /\ reads = <<>>
    /\ fps = <<0, 1>>
    /\ total_frames = 0
    /\ duration_sec = <<0, 1>>
    /\ total_screenshots = 0
    /\ font = "none"
    /\ margin = 0
    /\ stroke_width = 0
    /\ i = 0
    /\ hours = 0
    /\ minutes = 0
    /\ seconds = 0
    /\ timestamp = <<>>
    /\ screenshots = <<>>
    /\ width = 0
    /\ height = 0
    /\ grid_rows = 0
    /\ grid_width = 0
    /\ grid_height = 0
    /\ scale_factor = -1
    /\ grid_image = [w |-> 0, h |-> 0, pasted |-> <<>>]
    /\ files_written = 0

Init ==
    /\ video_is_file \in BOOLEAN
    /\ font_size \in FontSizes
    /\ grid_cols \in GridCols
    /\ grid_output \in OutputNames
    /\ pc = "Validate"
    /\ current_time = 0
    /\ Blank

(* ------------------- lines 22-34: validate arguments ------------------ *)
ValidateFail ==
    /\ pc = "Validate"
    /\ ~ArgsValid(video_is_file, font_size, grid_cols, grid_output)
    /\ stdout' = Say("Error", "invalid argument")
    /\ Exit1
    /\ UNCHANGED <<args, capvars, metavars, fontvars, fmtvars, loopvars,
                   gridvars, files_written>>

ValidateOk ==
    /\ pc = "Validate"
    /\ ArgsValid(video_is_file, font_size, grid_cols, grid_output)
    /\ pc' = "Open"
    /\ UNCHANGED <<args, exit_status, stdout, capvars, metavars, fontvars,
                   fmtvars, loopvars, gridvars, files_written>>

(* --------------------- lines 36-43: open the video -------------------- *)
\* cap.isOpened() is false, or VideoCapture raised: no release on this path
OpenFail ==
    /\ pc = "Open"
    /\ stdout' = Say("Error opening video", "")
    /\ Exit1
    /\ UNCHANGED <<args, capvars, metavars, fontvars, fmtvars, loopvars,
                   gridvars, files_written>>

OpenOk ==
    /\ pc = "Open"
    /\ \E v \in Videos : video' = v
    /\ cap' = "open"
    /\ pc' = "Metadata"
    /\ UNCHANGED <<args, exit_status, stdout, release_calls, reads, metavars,
                   fontvars, fmtvars, loopvars, gridvars, files_written>>

(* ------------------- lines 45-56: video information ------------------- *)
MetadataFail ==
    /\ pc = "Metadata"
    /\ InvalidMetadata(video.fps, video.frames)
    /\ fps' = video.fps
    /\ total_frames' = video.frames
    /\ stdout' = Say("Error retrieving video info", "")
    /\ Release
    /\ Exit1
    /\ UNCHANGED <<args, video, reads, duration_sec, total_screenshots,
                   fontvars, fmtvars, loopvars, gridvars, files_written>>

MetadataOk ==
    /\ pc = "Metadata"
    /\ ~InvalidMetadata(video.fps, video.frames)
    /\ fps' = video.fps
    /\ total_frames' = video.frames
    /\ duration_sec' = DurationSec(video.frames, video.fps)
    /\ total_screenshots' = TotalScreenshots(DurationSec(video.frames, video.fps))
    /\ pc' = "Font"
    /\ UNCHANGED <<args, exit_status, stdout, capvars, fontvars, fmtvars,
                   loopvars, gridvars, files_written>>

(* ----------------------- lines 58-68: load font ----------------------- *)
FontArial ==
    /\ pc = "Font"
    /\ font' = "arial"
    /\ pc' = "TextSize"
    /\ UNCHANGED <<args, exit_status, stdout, capvars, metavars, margin,
                   stroke_width, fmtvars, loopvars, gridvars, files_written>>

FontDefault ==
    /\ pc = "Font"
    /\ font' = "default"
    /\ stdout' = Say("Warning: Arial font not found", "")
    /\ pc' = "TextSize"
    /\ UNCHANGED <<args, exit_status, capvars, metavars, margin, stroke_width,
                   fmtvars, loopvars, gridvars, files_written>>

\* lines 65-68 without the cap.release() of line 67
FontFail_NoRelease ==
    /\ pc = "Font"
    /\ stdout' = Say("Error loading font", "")
    /\ Exit1
    /\ UNCHANGED <<args, capvars, metavars, fontvars, fmtvars, loopvars,
                   gridvars, files_written>>

FontFail ==
    /\ pc = "Font"
    /\ stdout' = Say("Error loading font", "")
    /\ Release
    /\ Exit1
    /\ UNCHANGED <<args, video, reads, metavars, fontvars, fmtvars, loopvars,
                   gridvars, files_written>>

(* ------------------ lines 70-81: text size, margin -------------------- *)
TextSizeOk ==
    /\ pc = "TextSize"
    /\ margin' = Margin(font_size)
    /\ stroke_width' = StrokeWidth(font_size)
    /\ pc' = "Capture"
    /\ UNCHANGED <<args, exit_status, stdout, capvars, metavars, font, fmtvars,
                   loopvars, gridvars, files_written>>

\* font.getbbox raised
TextSizeFail ==
    /\ pc = "TextSize"
    /\ stdout' = Say("Error calculating text size", "")
    /\ Release
    /\ Exit1
    /\ UNCHANGED <<args, video, reads, metavars, fontvars, fmtvars, loopvars,
                   gridvars, files_written>>
(* ------------------- lines 83-126: capture screenshots ---------------- *)
\* range(total_screenshots) is exhausted
CaptureExhausted ==
    /\ pc = "Capture"
    /\ ~(i < total_screenshots)
    /\ pc' = "Release"
    /\ UNCHANGED <<args, exit_status, stdout, capvars, metavars, fontvars,
                   fmtvars, loopvars, gridvars, files_written>>

\* lines 87-89: current_time >= duration_sec, break
CaptureBeyondDuration ==
    /\ pc = "Capture"
    /\ i < total_screenshots
    /\ current_time' = i * interval_sec
    /\ AtOrPastEnd(i * interval_sec, duration_sec)
    /\ pc' = "Release"
    /\ UNCHANGED <<args, exit_status, stdout, capvars, metavars, fontvars,
                   fmtvars, i, screenshots, gridvars, files_written>>

\* lines 93-95 with continue in place of break
CaptureReadFail_SkipAndContinue ==
    /\ pc = "Capture"
    /\ i < total_screenshots
    /\ current_time' = i * interval_sec
    /\ ~AtOrPastEnd(i * interval_sec, duration_sec)
    /\ reads' = Append(reads, [t |-> i * interval_sec, ret |-> FALSE, cap |-> cap])
    /\ stdout' = Say("Warning: Failed to read frame", i * interval_sec)
    /\ i' = i + 1
    /\ UNCHANGED <<args, pc, exit_status, cap, release_calls, video, metavars,
                   fontvars, fmtvars, screenshots, gridvars, files_written>>

\* lines 91-95: cap.read() returns ret = False: warn and break
CaptureReadFail ==
    /\ pc = "Capture"
    /\ i < total_screenshots
    /\ current_time' = i * interval_sec
    /\ ~AtOrPastEnd(i * interval_sec, duration_sec)
    /\ reads' = Append(reads, [t |-> i * interval_sec, ret |-> FALSE, cap |-> cap])
    /\ stdout' = Say("Warning: Failed to read frame", i * interval_sec)
    /\ pc' = "Release"
    /\ UNCHANGED <<args, exit_status, cap, release_calls, video, metavars,
                   fontvars, fmtvars, i, screenshots, gridvars, files_written>>

\* lines 91-122: a frame is read, labelled, halved and appended
CaptureReadOk ==
    /\ pc = "Capture"
    /\ i < total_screenshots
    /\ current_time' = i * interval_sec
    /\ ~AtOrPastEnd(i * interval_sec, duration_sec)
    /\ reads' = Append(reads, [t |-> i * interval_sec, ret |-> TRUE, cap |-> cap])
    /\ hours' = Hours(i * interval_sec)
    /\ minutes' = Minutes(i * interval_sec)
    /\ seconds' = Seconds(i * interval_sec)
    /\ timestamp' = Timestamp(i * interval_sec)
    /\ screenshots' = Append(screenshots,
                             [ts |-> i * interval_sec,
                              label |-> Timestamp(i * interval_sec),
                              w |-> video.w \div 2,
                              h |-> video.h \div 2])
    /\ stdout' = Say("Screenshot captured", i * interval_sec)
    /\ i' = i + 1
    /\ UNCHANGED <<args, pc, exit_status, cap, release_calls, video, metavars,
                   fontvars, gridvars, files_written>>

\* lines 123-126: a call after the read (cvtColor, fromarray, draw, resize)
\* raises: the frame is not appended, the handle is released, exit 1
CaptureError ==
    /\ pc = "Capture"
    /\ i < total_screenshots
    /\ current_time' = i * interval_sec
    /\ ~AtOrPastEnd(i * interval_sec, duration_sec)
    /\ reads' = Append(reads, [t |-> i * interval_sec, ret |-> TRUE, cap |-> cap])
    /\ stdout' = Say("Error during screenshot capture", i * interval_sec)
    /\ Release
    /\ Exit1
    /\ UNCHANGED <<args, video, metavars, fontvars, fmtvars, i, screenshots,
                   gridvars, files_written>>

(* ------------------------- lines 128-129 ------------------------------ *)
ReleaseAndCount ==
    /\ pc = "Release"
    /\ Release
    /\ stdout' = Say("Total screenshots captured", Len(screenshots))
    /\ pc' = "Compose"
    /\ UNCHANGED <<args, exit_status, video, reads, metavars, fontvars, fmtvars,
                   loopvars, gridvars, files_written>>

(* ----------------- lines 131-161: create and save the grid ------------ *)
\* lines 157-158: the else branch prints and the script ends (status 0)
ComposeEmpty ==
    /\ pc = "Compose"
    /\ screenshots = <<>>
    /\ stdout' = Say("Error: No screenshots captured, grid not created", "")
    /\ pc' = "Exited"
    /\ UNCHANGED <<args, exit_status, capvars, metavars, fontvars, fmtvars,
                   loopvars, gridvars, files_written>>

\* lines 134-146: cell size, rows, canvas size, overflow check, scale factor
ComposeLayout ==
    /\ pc = "Compose"
    /\ screenshots # <<>>
    /\ LET w0 == screenshots[1].w
           h0 == screenshots[1].h
           rows == GridRows(Len(screenshots), grid_cols)
           gw0 == GridWidth(w0, grid_cols)
           gh0 == GridHeight(h0, rows)
           over == Overflows(gw0, gh0)
           shrink == over /\ ScaleFactor(gw0, gh0) < 1
       IN  /\ over => (gw0 # 0 /\ gh0 # 0)   \* else line 143 divides by zero
           /\ grid_rows' = rows
           /\ grid_width' = gw0
           /\ grid_height' = gh0
           /\ scale_factor' = IF over THEN ScaleFactor(gw0, gh0) ELSE scale_factor
           /\ width' = IF shrink THEN w0 * ScaleFactor(gw0, gh0) ELSE w0
           /\ height' = IF shrink THEN h0 * ScaleFactor(gw0, gh0) ELSE h0
           /\ stdout' = IF over THEN Say("Warning: Grid dimensions exceed",
                                          <<gw0, gh0>>)
                                ELSE stdout
    /\ pc' = "Canvas"
    /\ UNCHANGED <<args, exit_status, capvars, metavars, fontvars, fmtvars,
                   loopvars, grid_image, files_written>>

\* lines 147-151: resize every screenshot when the scale factor is below 1,
\* recompute the canvas size, allocate the white canvas.  Whether Pillow
\* accepts a target size of 0 is the library's choice: this action is the
\* outcome where it does, ComposeError the one where it raises.
ComposeCanvas ==
    /\ pc = "Canvas"
    /\ LET shrink == Overflows(grid_width, grid_height) /\ scale_factor < 1
           gw1 == IF shrink THEN GridWidth(width, grid_cols) ELSE grid_width
           gh1 == IF shrink THEN GridHeight(height, grid_rows) ELSE grid_height
       IN  /\ screenshots' =
                 IF shrink
                 THEN [k \in 1..Len(screenshots) |->
                          [screenshots[k] EXCEPT !.w = width, !.h = height]]
                 ELSE screenshots
           /\ grid_width' = gw1
           /\ grid_height' = gh1
           /\ grid_image' = [w |-> gw1, h |-> gh1, pasted |-> <<>>]
    /\ i' = 0
    /\ pc' = "Paste"
    /\ UNCHANGED <<args, exit_status, stdout, capvars, metavars, fontvars,
                   fmtvars, current_time, width, height, grid_rows,
                   scale_factor, files_written>>

\* lines 152-153: one iteration of the paste loop
Paste ==
    /\ pc = "Paste"
    /\ i < Len(screenshots)
    /\ grid_image' =
          [grid_image EXCEPT !.pasted =
              Append(@, [img |-> i,
                         x |-> PasteX(i, grid_cols, width),
                         y |-> PasteY(i, grid_cols, height),
                         w |-> screenshots[i + 1].w,
                         h |-> screenshots[i + 1].h])]
    /\ i' = i + 1
    /\ pc' = IF i + 1 < Len(screenshots) THEN "Paste" ELSE "Save"
    /\ UNCHANGED <<args, exit_status, stdout, capvars, metavars, fontvars,
                   fmtvars, current_time, screenshots, width, height, grid_rows,
                   grid_width, grid_height, scale_factor, files_written>>

\* lines 155-156
SaveOk ==
    /\ pc = "Save"
    /\ files_written' = files_written + 1
    /\ stdout' = Say("Grid saved", <<grid_cols, grid_rows>>)
    /\ pc' = "Exited"
    /\ UNCHANGED <<args, exit_status, capvars, metavars, fontvars, fmtvars,
                   loopvars, gridvars>>

\* lines 159-161: resize, Image.new or paste raised
ComposeError ==
    /\ pc \in {"Compose", "Canvas", "Paste"}
    /\ screenshots # <<>>
    /\ stdout' = Say("Error creating or saving grid", "compose")
    /\ Exit1
    /\ UNCHANGED <<args, capvars, metavars, fontvars, fmtvars, loopvars,
                   gridvars, files_written>>

\* lines 159-161: grid_image.save raised
SaveError ==
    /\ pc = "Save"
    /\ stdout' = Say("Error creating or saving grid", "save")
    /\ Exit1
    /\ UNCHANGED <<args, capvars, metavars, fontvars, fmtvars, loopvars,
                   gridvars, files_written>>

Next ==
    \/ ValidateFail
    \/ ValidateOk
    \/ OpenFail
    \/ OpenOk
    \/ MetadataFail
    \/ MetadataOk
    \/ FontArial
    \/ FontDefault
    \/ FontFail
    \/ TextSizeOk
    \/ TextSizeFail
    \/ CaptureExhausted
    \/ CaptureBeyondDuration
    \/ CaptureReadFail
    \/ CaptureReadOk
    \/ CaptureError
    \/ ReleaseAndCount
    \/ ComposeEmpty
    \/ ComposeLayout
    \/ ComposeCanvas
    \/ Paste
    \/ SaveOk
    \/ ComposeError
    \/ SaveError

Spec == Init /\ [][Next]_vars

(* ------- the label computation alone, on every sampled timestamp ------ *)
InitFmt ==
    /\ video_is_file = TRUE
    /\ font_size = 20
    /\ grid_cols = 5
    /\ grid_output = <<"g", ".", "j", "p", "g">>
    /\ pc = "Format"
    /\ current_time \in {interval_sec * k : k \in 0..MaxFmtIndex}
    /\ Blank

\* lines 101-104
FormatTimestamp ==
    /\ pc = "Format"
    /\ hours' = Hours(current_time)
    /\ minutes' = Minutes(current_time)
    /\ seconds' = Seconds(current_time)
    /\ timestamp' = Timestamp(current_time)
    /\ pc' = "Formatted"
    /\ UNCHANGED <<args, exit_status, stdout, capvars, metavars, fontvars,
                   loopvars, gridvars, files_written>>

NextFmt == FormatTimestamp

SpecFmt == InitFmt /\ [][NextFmt]_vars
(* ============================== claims ================================ *)
\* the true duration of the opened video, frames / fps, as a fraction
TrueNum == video.frames * video.fps[2]
TrueDen == video.fps[1]
\* sampling ended and the handle was released at line 128
SamplingDone == Printed("Total screenshots captured")
\* the canvas exists: lines 151 and later
GridComposed == pc \in {"Paste", "Save"} \/ files_written > 0
\* two rectangles [x, y, w, h] share no pixel
Disjoint(a, b) ==
    \/ a.x + a.w <= b.x
    \/ b.x + b.w <= a.x
    \/ a.y + a.h <= b.y
    \/ b.y + b.h <= a.y

\* C1: once the video has been opened the handle is released exactly once
\* before the process exits, on every exit path; it is never released twice,
\* never left open at exit, and no read is issued on a released handle.
C1_ReleasedExactlyOnce ==
    /\ release_calls <= 1
    /\ (cap = "released") <=> (release_calls = 1)
    /\ (pc = "Exited" /\ cap # "none") => (cap = "released" /\ release_calls = 1)
    /\ \A k \in 1..Len(reads) : reads[k].cap = "open"

\* a run that failed while composing or saving, with frames captured
C1_Witness ==
    /\ pc = "Exited"
    /\ exit_status = 1
    /\ Printed("Error creating or saving grid")
    /\ Len(reads) = 3
    /\ cap = "released"
    /\ release_calls = 1

\* the multiples of interval_sec strictly below the true duration
C2_SampleTimes ==
    {t \in {interval_sec * k : k \in 0..TrueNum} : t * TrueDen < TrueNum}

\* C2: with positive frame rate and frame count and no failing read, the
\* reads are attempted at exactly the multiples of 30 strictly below the
\* duration D, once each, in increasing order; the loop bound is
\* floor(D/30) + 1 and no read is attempted at a timestamp >= D, so D/30 reads
\* when 30 divides D and floor(D/30) + 1 otherwise.
C2_SampleTimestamps ==
    /\ total_screenshots # 0 =>
          total_screenshots = (TrueNum \div (TrueDen * interval_sec)) + 1
    /\ \A k \in 1..Len(reads) :
          /\ reads[k].t = interval_sec * (k - 1)
          /\ reads[k].t * TrueDen < TrueNum
    /\ (SamplingDone /\ \A k \in 1..Len(reads) : reads[k].ret) =>
          /\ {reads[k].t : k \in 1..Len(reads)} = C2_SampleTimes
          /\ Len(reads) = Cardinality(C2_SampleTimes)
          /\ Len(reads) =
                IF TrueNum % (TrueDen * interval_sec) = 0
                THEN TrueNum \div (TrueDen * interval_sec)
                ELSE (TrueNum \div (TrueDen * interval_sec)) + 1

\* a 60 second video: two reads, the third iteration (t = 60) reads nothing
C2_Witness ==
    /\ SamplingDone
    /\ TrueNum = 60 * TrueDen
    /\ total_screenshots = 3
    /\ Len(reads) = 2
    /\ \A k \in 1..Len(reads) : reads[k].ret

\* C3: sampling is gapless until the first failed read: when the read at
\* 30*k fails the loop stops at once, no later read is ever attempted, a
\* warning is printed, the capture stage does not fail the run, and the
\* captured frames are those of 0, 30, ..., 30*(k-1) in that order.
C3_StopAtFirstFailedRead ==
    /\ \A j \in 1..Len(screenshots) : screenshots[j].ts = interval_sec * (j - 1)
    /\ \A k \in 1..Len(reads) :
          ~reads[k].ret =>
             /\ k = Len(reads)
             /\ reads[k].t = interval_sec * (k - 1)
             /\ pc # "Capture"
             /\ \E m \in 1..Len(stdout) :
                   stdout[m] = <<"Warning: Failed to read frame", reads[k].t>>
             /\ ~Printed("Error during screenshot capture")
             /\ exit_status = 1 => Printed("Error creating or saving grid")
             /\ Len(screenshots) = k - 1

\* the read at 60 failed; the two frames of 0 and 30 were saved, exit 0
C3_Witness ==
    /\ pc = "Exited"
    /\ exit_status = 0
    /\ files_written = 1
    /\ Len(reads) = 3
    /\ ~reads[3].ret
    /\ Len(screenshots) = 2

\* C4: a run that captures zero frames ends with a fatal error: non-zero exit
\* status and no output file.
C4_ZeroFramesIsFatal ==
    (pc = "Exited" /\ SamplingDone /\ screenshots = <<>>) =>
        (exit_status # 0 /\ files_written = 0)

\* ceil(n / c) for n >= 0 and c >= 1
CeilDiv(n, c) == CHOOSE r \in 0..n : r * c >= n /\ (r - 1) * c < n

\* the unscaled canvas, cell size times columns by cell size times rows,
\* exceeds 65000 in a dimension
C5_UnscaledOverflow ==
    /\ screenshots # <<>>
    /\ \/ (video.w \div 2) * grid_cols > MaxGridDim
       \/ (video.h \div 2) * CeilDiv(Len(screenshots), grid_cols) > MaxGridDim

\* C5: when the unscaled canvas exceeds 65000 pixels in a dimension the
\* canvas is scaled to at most 65000 or a warning is printed, and in both
\* cases every frame gets a cell of positive size.
C5_OverflowHandled ==
    (pc \in {"Canvas", "Paste", "Save"} /\ C5_UnscaledOverflow) =>
        /\ \/ (GridWidth(width, grid_cols) <= MaxGridDim
                 /\ GridHeight(height, grid_rows) <= MaxGridDim)
           \/ Printed("Warning: Grid dimensions exceed")
        /\ width > 0
        /\ height > 0

\* the cell with 0-based index k of the grid, as a rectangle
C6_Cell(k) ==
    [x |-> (k % grid_cols) * width, y |-> (k \div grid_cols) * height,
     w |-> width, h |-> height]

\* C6: N frames in C columns give ceil(N/C) rows and a canvas of C by
\* ceil(N/C) cells; frame i is pasted at cell (i mod C, i div C), pixel offset
\* (col * cellWidth, row * cellHeight); distinct frames share no pixel, every
\* frame lies inside the canvas, and the cells of index >= N stay white.
C6_GridPlacement ==
    GridComposed =>
        LET n == Len(screenshots)
            pasted == grid_image.pasted
        IN  /\ grid_rows = CeilDiv(n, grid_cols)
            /\ grid_image.w = grid_cols * width
            /\ grid_image.h = grid_rows * height
            /\ \A k \in 1..Len(pasted) :
                  /\ pasted[k].img = k - 1
                  /\ pasted[k] = [img |-> k - 1] @@ C6_Cell(k - 1)
                  /\ pasted[k].x + pasted[k].w <= grid_image.w
                  /\ pasted[k].y + pasted[k].h <= grid_image.h
                  /\ \A j \in 1..(k - 1) : Disjoint(pasted[j], pasted[k])
            /\ (pc = "Save" \/ files_written > 0) =>
                  /\ Len(pasted) = n
                  /\ \A c \in n..(grid_rows * grid_cols - 1) :
                        \A k \in 1..Len(pasted) : Disjoint(C6_Cell(c), pasted[k])

\* five frames in three columns, saved: two rows, one white cell
C6_Witness ==
    /\ files_written = 1
    /\ Len(screenshots) = 5
    /\ grid_cols = 3
    /\ grid_rows = 2
    /\ width > 0
    /\ height > 0

\* the opened video is shorter than one interval and its first read succeeded
C7_ShortVideo ==
    /\ cap # "none"
    /\ 0 < TrueNum
    /\ TrueNum < interval_sec * TrueDen
    /\ Len(reads) >= 1
    /\ reads[1].ret
    /\ ~Printed("Error during screenshot capture")

\* C7 as stated: a video with 0 < D < 30 whose first read succeeds gives one
\* frame, of timestamp 0, and a 1x1 grid (a canvas one cell wide and one
\* cell high) for every column count.
C7_OneByOneGrid ==
    /\ (C7_ShortVideo /\ SamplingDone) =>
          (Len(screenshots) = 1 /\ screenshots[1].ts = 0 /\ Len(reads) = 1)
    /\ (C7_ShortVideo /\ GridComposed) =>
          (grid_rows = 1 /\ grid_image.w = width /\ grid_image.h = height)

\* C7 as amended: such a video gives one frame, of timestamp 0, and a grid of
\* one row and grid_cols columns (a canvas grid_cols cells wide and one cell
\* high), which is 1x1 only when the column count is 1.
C7_OneRowGrid ==
    /\ (C7_ShortVideo /\ SamplingDone) =>
          (Len(screenshots) = 1 /\ screenshots[1].ts = 0 /\ Len(reads) = 1)
    /\ (C7_ShortVideo /\ GridComposed) =>
          /\ grid_rows = 1
          /\ grid_image.w = grid_cols * width
          /\ grid_image.h = height
          /\ (grid_image.w = width) <=> (grid_cols = 1 \/ width = 0)

\* a 19 second video saved with three columns
C7_Witness ==
    /\ C7_ShortVideo
    /\ files_written = 1
    /\ grid_cols = 3
    /\ Len(screenshots) = 1
    /\ grid_image.w = 3 * 960

\* two characters are the same letter up to case
C8_SameLetter(a, b) ==
    \/ a = b
    \/ <<a, b>> \in {<<"J", "j">>, <<"P", "p">>, <<"E", "e">>, <<"G", "g">>,
                     <<"N", "n">>}
C8_HasImageExtension(s) ==
    \E e \in ImageExtensions :
        /\ Len(s) >= Len(e)
        /\ \A k \in 1..Len(e) : C8_SameLetter(s[Len(s) - Len(e) + k], e[k])
C8_ArgsInvalid ==
    \/ ~video_is_file
    \/ font_size <= 0
    \/ grid_cols <= 0
    \/ ~C8_HasImageExtension(grid_output)

\* C8: when the input is no file, the font size or the column count is not
\* positive, or the output name has no .jpg/.jpeg/.png ending (any case), the
\* process exits with status 1 without opening the video, reading a frame or
\* writing a file.
C8_ValidationFirst ==
    C8_ArgsInvalid =>
        /\ pc \in {"Validate", "Exited"}
        /\ pc = "Exited" => exit_status = 1
        /\ cap = "none"
        /\ video = NoVideo
        /\ reads = <<>>
        /\ release_calls = 0
        /\ files_written = 0

\* rejected for the output name alone
C8_Witness ==
    /\ pc = "Exited"
    /\ exit_status = 1
    /\ video_is_file
    /\ font_size > 0
    /\ grid_cols > 0
    /\ grid_output = <<"g", ".", "p", "n", "g", ".", "e">>
    /\ cap = "none"

\* C9: the output file is written at most once, only after sampling has
\* finished, the handle is released and every frame is pasted; and a run ends
\* either in Done with the file written, or, after any stage failure, in
\* Failed with non-zero exit status and no file written.
C9_DoneOrFailed ==
    /\ files_written <= 1
    /\ files_written = 1 =>
          /\ SamplingDone
          /\ cap = "released"
          /\ Len(grid_image.pasted) = Len(screenshots)
    /\ pc = "Exited" =>
          \/ (exit_status = 0 /\ files_written = 1)
          \/ (exit_status # 0 /\ files_written = 0)

\* the position of a block in the pipeline
C9_Rank(p) ==
    CASE p = "Validate" -> 0 [] p = "Open" -> 1 [] p = "Metadata" -> 2
      [] p = "Font" -> 3 [] p = "TextSize" -> 4 [] p = "Capture" -> 5
      [] p = "Release" -> 6 [] p = "Compose" -> 7 [] p = "Canvas" -> 8
      [] p = "Paste" -> 9 [] p = "Save" -> 10 [] p = "Exited" -> 11
\* the part of C9 the script keeps: no block is entered again after a later one
C9_ForwardOnly == [][C9_Rank(pc') >= C9_Rank(pc)]_vars

\* two decimal digits of a number below 100
C10_TwoDigits(n) == <<DigitChar(n \div 10), DigitChar(n % 10)>>

\* C10: the label of timestamp t is HH:MM:SS from hours = t div 3600,
\* minutes = (t mod 3600) div 60, seconds = t mod 60, each padded to two
\* digits; 0 <= minutes, seconds <= 59 and 3600*hours + 60*minutes + seconds
\* = t, so distinct timestamps get distinct labels.
C10_LabelOfTimestamp ==
    pc = "Formatted" =>
        /\ hours = current_time \div 3600
        /\ minutes = (current_time % 3600) \div 60
        /\ seconds = current_time % 60
        /\ 0 <= minutes /\ minutes <= 59
        /\ 0 <= seconds /\ seconds <= 59
        /\ 3600 * hours + 60 * minutes + seconds = current_time
        /\ hours < 100 =>
              timestamp = C10_TwoDigits(hours) \o <<":">> \o C10_TwoDigits(minutes)
                              \o <<":">> \o C10_TwoDigits(seconds)
        /\ \A k \in 0..MaxFmtIndex :
              Timestamp(interval_sec * k) = timestamp =>
                  interval_sec * k = current_time

\* 3630 seconds is labelled 01:00:30
C10_Witness ==
    /\ pc = "Formatted"
    /\ current_time = 3630
    /\ timestamp = <<"0", "1", ":", "0", "0", ":", "3", "0">>
====
